---- MODULE Spec2Model ----
(***************************************************************************)
(* A model of the content generation agent (agent.ts) and of the tool      *)
(* client it drives (mcpClient.ts).                                        *)
(*                                                                         *)
(* JavaScript values are modelled structurally: an object is a record that *)
(* has exactly the fields the code sets (an optional field that the code   *)
(* leaves out is absent from the record's DOMAIN), a string is a string,   *)
(* an array is a sequence.  A value whose type the code does not fix (the  *)
(* `content` of a tool result, declared `any`) is tagged: Arr(s), Str(s).  *)
(* The outcome of an awaited call is Return(v) or Throw(e).                *)
(***************************************************************************)
EXTENDS Integers, Sequences, FiniteSets, TLC

VARIABLES
    client,          \* InteractiveOAuthClient.client of each client: "null" | "created"
    connPc,          \* position of each client's connectWithoutLoop
    initPc,          \* position of ContentGenerationAgent.initialize
    wfPc,            \* position of ContentGenerationAgent.executeWorkflow
    query,           \* executeWorkflow's parameter query
    targetLanguage,  \* executeWorkflow's parameter targetLanguage (default applied)
    researchResult,  \* const researchResult (None until assigned)
    draftResult,     \* const draftResult
    translateResult, \* const translateResult
    wfResult,        \* how executeWorkflow ended: Return(result) | Throw(e) | None
    sent,            \* the tools/call requests handed to client.request in this run
    calls,           \* invocations of each step and of callToolDirect in this run
    settled,         \* how each tool's callToolDirect settled in this run (None: not yet)
    raised,          \* the exception that escaped a step in this run (None: none did)
    run,             \* number of executeWorkflow runs started so far
    \* utils.ts: one call of callWithRetry
    rtPc,            \* position: "idle" | "calling" | "sleeping" | "done"
    rtMax,           \* parameter maxRetries (default applied)
    rtBase,          \* parameter baseDelayMs (default applied)
    rtAttempt,       \* let attempt
    rtInvocations,   \* number of invocations of callFn so far
    rtThrown,        \* the errors callFn has thrown, in order
    rtWaits,         \* the delays of the setTimeout waits, in order
    rtResult,        \* how callWithRetry settled: Return(v) | Throw(e) | None
    \* the machine's TCP ports held by other processes
    occupied,
    \* oauthUtils.ts: one call of waitForOAuthCallback
    lsPc,            \* the http server: "idle" | "binding" | "listening" | "closed" | "failed"
    lsPort,          \* parameter callbackPort
    lsAttempt,       \* the port of the listen call in progress
    lsBound,         \* the port the server listens on (0: none)
    lsBinds,         \* the ports server.listen was called with, in order
    lsPromise,       \* the returned promise: None (pending) | Return(code) | Throw(e)
    lsResponses,     \* the status codes of the responses written, in order
    lsRequests,      \* the requests other than favicon probes handled, in order
    lsTimers,        \* setTimeout(closeServer, 1000) timers not yet fired
    lsScheduled,     \* number of closeServer timers set so far
    \* oauthUtils.ts: one call of findAvailablePort
    fpPc,            \* "idle" | "probing" | "closing" | "done"
    fpStart,         \* parameter startPort of the outermost call
    fpPort,          \* startPort of the innermost call: the port being probed
    fpHeld,          \* the port the probe server listens on (0: none)
    fpProbed,        \* the listen calls made and how each ended, in order
    fpResult,        \* how the outermost promise settled: Return(p) | Throw(e) | None
    \* mcpClient.ts: connectWithoutLoop and attemptConnection of each client
    hsPort,          \* callbackPort, the port of the redirect URI (0: not yet chosen)
    hsAttempts,      \* calls of client.connect(transport)
    hsListeners,     \* calls of waitForOAuthCallback
    hsBrowser,       \* calls of openBrowser by the redirect handler
    hsExchanges,     \* calls of transport.finishAuth
    hsResult,        \* how connectWithoutLoop settled: Return(Undefined) | Throw(e) | None
    initResult,      \* how initialize settled: Return(Undefined) | Throw(e) | None
    lingering        \* ports of earlier listeners whose closeServer timer has not fired

agentVars == <<wfPc, query, targetLanguage, researchResult, draftResult,
               translateResult, wfResult, sent, calls, settled, raised, run>>
clientVars == <<client, connPc, initPc>>
retryVars == <<rtPc, rtMax, rtBase, rtAttempt, rtInvocations, rtThrown, rtWaits, rtResult>>
\* The state of utils.ts and oauthUtils.ts, which the agent's actions leave alone.
listenerVars == <<lsPc, lsPort, lsAttempt, lsBound, lsBinds, lsPromise, lsResponses,
                  lsRequests, lsTimers, lsScheduled>>
portVars == <<fpPc, fpStart, fpPort, fpHeld, fpProbed, fpResult>>
handshakeVars == <<hsPort, hsAttempts, hsListeners, hsBrowser, hsExchanges, hsResult,
                   initResult, lingering>>
utilVars == <<retryVars, occupied, listenerVars, portVars, handshakeVars>>
vars == <<client, connPc, initPc, wfPc, query, targetLanguage, researchResult, draftResult,
          translateResult, wfResult, sent, calls, settled, raised, run, utilVars>>

---------------------------------------------------------------------------
(* Bounds of the model                                                     *)

MaxRuns == 2

---------------------------------------------------------------------------
(* Values                                                                  *)

None == [none |-> TRUE]
Undefined == [t |-> "undefined"]
Return(v) == [kind |-> "return", value |-> v]
Throw(e) == [kind |-> "throw", exc |-> e]
Arr(s) == [t |-> "array", items |-> s]
Str(s) == [t |-> "string", s |-> s]

\* A thrown value: an Error carrying a message, or something that is no Error.
Err(m) == [isError |-> TRUE, message |-> m]
NonError == [isError |-> FALSE]

Clients == {"exa", "deepL"}
Queries == {"q1", "q2"}
Omitted == "<omitted>"
Languages == {"es", "fr"}

TextItem(s) == [type |-> "text", text |-> s]
ImageItem == [type |-> "image", data |-> "b64"]

\* What client.request may resolve to (the SDK is outside the repository;
\* callToolDirect returns Promise<any>).
ToolResults ==
    { [content |-> Arr(<<TextItem("alpha")>>)],
      [content |-> Arr(<<TextItem("alpha"), ImageItem, TextItem("beta")>>)],
      [content |-> Arr(<<>>)],
      [isError |-> FALSE],
      [content |-> Str("oops")] }

Messages == {"Request timeout", "Invalid token", "boom"}
Thrown == {Err(m) : m \in Messages} \cup {NonError}
Replies == {Return(r) : r \in ToolResults} \cup {Throw(e) : e \in Thrown}

\* r.data, which is undefined when the result has no data.
DataOf(r) == IF "data" \in DOMAIN r THEN r.data ELSE Undefined

\* `error instanceof Error ? error.message : fallback`
ErrorMessage(e, fallback) == IF e.isError THEN e.message ELSE fallback

---------------------------------------------------------------------------
(* mcpClient.ts                                                            *)

NotConnected == Err("Not connected to server")

\* The request callToolDirect builds.
CallToolRequest(toolName, toolArgs) ==
    [method |-> "tools/call", params |-> [name |-> toolName, arguments |-> toolArgs]]

\* callToolDirect up to its await: throws when this.client is null, else hands
\* the request to client.request.
callToolDirectThrows(c) == client[c] = "null"

---------------------------------------------------------------------------
(* agent.ts: the three steps                                               *)

\* Mutant of research: the catch branch leaves the error message out.
research_NoError(outcome) ==
    IF outcome.kind = "return"
    THEN [success |-> TRUE, data |-> outcome.value, step |-> "research"]
    ELSE [success |-> FALSE, step |-> "research"]

\* research(query), given the outcome of the awaited callToolDirect.
research(outcome) ==
    IF outcome.kind = "return"
    THEN [success |-> TRUE, data |-> outcome.value, step |-> "research"]
    ELSE [success |-> FALSE,
          error |-> ErrorMessage(outcome.exc, "Unknown research error"),
          step |-> "research"]

SearchArgs(q) == [query |-> q, num_results |-> 5]

RECURSIVE SummaryOf(_)
\* The forEach of draft: researchSummary += item.text + '\n' for each text item.
SummaryOf(items) ==
    IF items = <<>> THEN ""
    ELSE LET rest == SummaryOf(Tail(items))
             item == Head(items)
         IN IF item.type = "text" THEN (item.text \o "\n") \o rest ELSE rest

DraftHead == "# Research Summary\n\nBased on the latest research findings, here are the key insights:\n\n"
DraftTail == "\n\n## Key Points:\n- Research indicates important developments in the field\n- Multiple sources confirm the growing significance\n- Experts recommend staying informed about these trends\n\n## Conclusion:\nThe research provides valuable insights that can inform decision-making and strategy development."

\* The body of draft's try block: Return(draft text), or the TypeError of calling
\* forEach on a content that is no array.
DraftBody(researchData) ==
    IF researchData # Undefined /\ "content" \in DOMAIN researchData
    THEN IF researchData.content.t = "array"
         THEN Return(DraftHead \o SummaryOf(researchData.content.items) \o DraftTail)
         ELSE Throw(Err("researchData.content.forEach is not a function"))
    ELSE Return(DraftHead \o "" \o DraftTail)

\* draft(researchData)
draft(researchData) ==
    LET body == DraftBody(researchData)
    IN IF body.kind = "return"
       THEN [success |-> TRUE, data |-> body.value, step |-> "draft"]
       ELSE [success |-> FALSE,
             error |-> ErrorMessage(body.exc, "Unknown draft error"),
             step |-> "draft"]

TranslateArgs(text, lang) == [text |-> text, targetLang |-> lang]

\* Mutant of translate: the catch branch reports the failure instead of
\* absorbing it.
translate_ReportsFailure(text, lang, outcome) ==
    IF outcome.kind = "return"
    THEN [success |-> TRUE, data |-> outcome.value, step |-> "translate"]
    ELSE [success |-> FALSE,
          error |-> ErrorMessage(outcome.exc, "Unknown error"),
          step |-> "translate"]

\* Mutant of translate: the fallback names the default language, not the
\* requested one.
translate_DefaultLang(text, lang, outcome) ==
    IF outcome.kind = "return"
    THEN [success |-> TRUE, data |-> outcome.value, step |-> "translate"]
    ELSE [success |-> TRUE,
          data |-> [original_text |-> text,
                    translated_text |-> text,
                    warning |-> "Translation failed, returning original text",
                    target_language |-> "es",
                    fallback_applied |-> TRUE],
          step |-> "translate",
          error |-> "Translation failed but fallback applied: "
                      \o ErrorMessage(outcome.exc, "Unknown error")]

\* translate(text, targetLanguage), given the outcome of the awaited callToolDirect.
translate(text, lang, outcome) ==
    IF outcome.kind = "return"
    THEN [success |-> TRUE, data |-> outcome.value, step |-> "translate"]
    ELSE [success |-> TRUE,
          data |-> [original_text |-> text,
                    translated_text |-> text,
                    warning |-> "Translation failed, returning original text",
                    target_language |-> lang,
                    fallback_applied |-> TRUE],
          step |-> "translate",
          error |-> "Translation failed but fallback applied: "
                      \o ErrorMessage(outcome.exc, "Unknown error")]

---------------------------------------------------------------------------
(* agent.ts: executeWorkflow                                               *)

\* `targetLanguage: string = 'es'`
DefaultLanguage(arg) == IF arg = Omitted THEN "es" ELSE arg

\* Mutant of WorkflowSuccess: the translate step's whole result, not its data,
\* is reported as the translation.
WorkflowSuccess_WholeStep(q, lang, rr, dr, tr) ==
    [success |-> TRUE,
     data |-> [query |-> q,
               targetLanguage |-> lang,
               research |-> DataOf(rr),
               draft |-> DataOf(dr),
               translation |-> tr,
               workflow_status |-> "complete"],
     step |-> "workflow"]

\* The object executeWorkflow returns after the three steps.
WorkflowSuccess(q, lang, rr, dr, tr) ==
    [success |-> TRUE,
     data |-> [query |-> q,
               targetLanguage |-> lang,
               research |-> DataOf(rr),
               draft |-> DataOf(dr),
               translation |-> DataOf(tr),
               workflow_status |-> "complete"],
     step |-> "workflow"]

\* Mutant of WorkflowCatch: the catch branch throws the exception again.
WorkflowCatch_Rethrow(e) == Throw(e)

\* The catch branch of executeWorkflow.
WorkflowCatch(e) ==
    Return([success |-> FALSE,
            error |-> ErrorMessage(e, "Unknown workflow error"),
            step |-> "workflow"])

\* What is counted per run: the three steps and the two tools of callToolDirect.
Counted == {"research", "draft", "translate", "web_search_exa", "translate-text"}
NoCalls == [k \in Counted |-> 0]

Bump(f, k) == [f EXCEPT ![k] = @ + 1]

Tools == {"web_search_exa", "translate-text"}
NoOutcome == [t \in Tools |-> None]

\* No call of callWithRetry has been made.
InitRetry ==
    /\ rtPc = "idle"
    /\ rtMax = 0
    /\ rtBase = 0
    /\ rtAttempt = 0
    /\ rtInvocations = 0
    /\ rtThrown = <<>>
    /\ rtWaits = <<>>
    /\ rtResult = None

\* No call of waitForOAuthCallback has been made.
InitListener ==
    /\ lsPc = "idle"
    /\ lsPort = 0
    /\ lsAttempt = 0
    /\ lsBound = 0
    /\ lsBinds = <<>>
    /\ lsPromise = None
    /\ lsResponses = <<>>
    /\ lsRequests = <<>>
    /\ lsTimers = 0
    /\ lsScheduled = 0

\* No client has started to connect.
InitHandshake ==
    /\ hsPort = [c \in Clients |-> 0]
    /\ hsAttempts = [c \in Clients |-> 0]
    /\ hsListeners = [c \in Clients |-> 0]
    /\ hsBrowser = [c \in Clients |-> 0]
    /\ hsExchanges = [c \in Clients |-> 0]
    /\ hsResult = [c \in Clients |-> None]
    /\ initResult = None
    /\ lingering = {}

\* No call of findAvailablePort has been made.
InitPort ==
    /\ fpPc = "idle"
    /\ fpStart = 0
    /\ fpPort = 0
    /\ fpHeld = 0
    /\ fpProbed = <<>>
    /\ fpResult = None

\* The agent after construction: no client is connected, no run was made.
InitAgent ==
    /\ client = [c \in Clients |-> "null"]
    /\ connPc = [c \in Clients |-> "idle"]
    /\ initPc = "notCalled"
    /\ wfPc = "Idle"
    /\ query = ""
    /\ targetLanguage = ""
    /\ researchResult = None
    /\ draftResult = None
    /\ translateResult = None
    /\ wfResult = None
    /\ sent = <<>>
    /\ calls = NoCalls
    /\ settled = NoOutcome
    /\ raised = None
    /\ run = 0

Init ==
    /\ InitAgent
    /\ InitRetry
    /\ InitListener
    /\ InitPort
    /\ InitHandshake
    /\ occupied = {}

---------------------------------------------------------------------------
(* initialize: the two clients are connected one after the other           *)

\* initialize() is called: it awaits exaClient.connectWithoutLoop().
Initialize ==
    /\ initPc = "notCalled"
    /\ initPc' = "exa"
    /\ connPc' = [connPc EXCEPT !["exa"] = "findingPort"]
    /\ UNCHANGED <<client, agentVars, utilVars>>

\* connectWithoutLoop: findAvailablePort resolved; the provider and the Client
\* object are created (this.client is set) and attemptConnection is awaited.
PortFound(c) ==
    /\ connPc[c] = "findingPort"
    /\ client' = [client EXCEPT ![c] = "created"]
    /\ connPc' = [connPc EXCEPT ![c] = "attempting"]
    /\ UNCHANGED <<initPc, agentVars, utilVars>>

\* connectWithoutLoop: findAvailablePort rejected; initialize rejects with it.
PortFails(c) ==
    /\ connPc[c] = "findingPort"
    /\ connPc' = [connPc EXCEPT ![c] = "failed"]
    /\ initPc' = "failed"
    /\ UNCHANGED <<client, agentVars, utilVars>>

\* attemptConnection resolved: initialize goes on to the next client, or ends.
AttemptSucceeds(c) ==
    /\ connPc[c] = "attempting"
    /\ IF c = "exa"
       THEN /\ connPc' = [connPc EXCEPT !["exa"] = "connected", !["deepL"] = "findingPort"]
            /\ initPc' = "deepL"
       ELSE /\ connPc' = [connPc EXCEPT ![c] = "connected"]
            /\ initPc' = "done"
    /\ UNCHANGED <<client, agentVars, utilVars>>

\* attemptConnection rejected; initialize rejects with it.
AttemptFails(c) ==
    /\ connPc[c] = "attempting"
    /\ connPc' = [connPc EXCEPT ![c] = "failed"]
    /\ initPc' = "failed"
    /\ UNCHANGED <<client, agentVars, utilVars>>

---------------------------------------------------------------------------
(* executeWorkflow, one action per continuation between two awaits         *)

\* executeWorkflow(q, arg) is called (no run is in progress) and calls
\* research(query).
StartWorkflow(q, arg) ==
    /\ wfPc \in {"Idle", "Done"}
    /\ run < MaxRuns
    /\ run' = run + 1
    /\ query' = q
    /\ targetLanguage' = DefaultLanguage(arg)
    /\ researchResult' = None
    /\ draftResult' = None
    /\ translateResult' = None
    /\ wfResult' = None
    /\ raised' = None
    /\ sent' = <<>>
    /\ calls' = Bump(NoCalls, "research")
    /\ settled' = NoOutcome
    /\ wfPc' = "Researching"
    /\ UNCHANGED <<utilVars, clientVars>>

\* Mutant of AfterResearch: the check of researchResult.success is missing.
AfterResearch_NoHalt(rr, n) ==
    /\ researchResult' = rr
    /\ wfResult' = wfResult
    /\ wfPc' = "Drafting"
    /\ calls' = Bump(n, "draft")

\* The continuation of executeWorkflow once research has returned rr: a failed
\* research result is returned as it is, else draft(researchResult.data) is
\* called.  n is the call count so far.
AfterResearch(rr, n) ==
    /\ researchResult' = rr
    /\ IF ~rr.success
       THEN /\ wfResult' = Return(rr)
            /\ wfPc' = "Done"
            /\ calls' = n
       ELSE /\ wfResult' = wfResult
            /\ wfPc' = "Drafting"
            /\ calls' = Bump(n, "draft")

\* research calls callToolDirect('web_search_exa', ...): it throws at once on a
\* client that is null, else the request is handed to client.request.
ResearchCall ==
    /\ wfPc = "Researching"
    /\ IF callToolDirectThrows("exa")
       THEN /\ AfterResearch(research(Throw(NotConnected)), Bump(calls, "web_search_exa"))
            /\ settled' = [settled EXCEPT !["web_search_exa"] = Throw(NotConnected)]
            /\ sent' = sent
       ELSE /\ sent' = Append(sent, CallToolRequest("web_search_exa", SearchArgs(query)))
            /\ wfPc' = "ResearchAwait"
            /\ calls' = Bump(calls, "web_search_exa")
            /\ UNCHANGED <<researchResult, wfResult, settled>>
    /\ UNCHANGED <<utilVars, clientVars, query, targetLanguage, draftResult, translateResult,
                   raised, run>>

\* client.request of the search tool settles with reply.
ResearchReturn(reply) ==
    /\ wfPc = "ResearchAwait"
    /\ AfterResearch(research(reply), calls)
    /\ settled' = [settled EXCEPT !["web_search_exa"] = reply]
    /\ UNCHANGED <<utilVars, clientVars, query, targetLanguage, draftResult, translateResult,
                   sent, raised, run>>

\* Mutant of Draft: the check of draftResult.success is missing.
Draft_NoHalt ==
    /\ wfPc = "Drafting"
    /\ draftResult' = draft(DataOf(researchResult))
    /\ wfResult' = wfResult
    /\ wfPc' = "Translating"
    /\ calls' = Bump(calls, "translate")
    /\ UNCHANGED <<utilVars, clientVars, query, targetLanguage, researchResult, translateResult,
                   sent, settled, raised, run>>

\* draft returns: a failed draft result is returned as it is, else
\* translate(draftResult.data, targetLanguage) is called.
Draft ==
    /\ wfPc = "Drafting"
    /\ LET dr == draft(DataOf(researchResult))
       IN /\ draftResult' = dr
          /\ IF ~dr.success
             THEN /\ wfResult' = Return(dr)
                  /\ wfPc' = "Done"
                  /\ calls' = calls
             ELSE /\ wfResult' = wfResult
                  /\ wfPc' = "Translating"
                  /\ calls' = Bump(calls, "translate")
    /\ UNCHANGED <<utilVars, clientVars, query, targetLanguage, researchResult, translateResult,
                   sent, settled, raised, run>>

\* Mutant of AfterTranslate: a translate result that carries an error is
\* returned as a failed result.
AfterTranslate_Halts(tr) ==
    /\ translateResult' = tr
    /\ wfResult' = IF "error" \in DOMAIN tr
                   THEN Return([success |-> FALSE, error |-> tr.error, step |-> "translate"])
                   ELSE Return(WorkflowSuccess(query, targetLanguage, researchResult,
                                               draftResult, tr))
    /\ wfPc' = "Done"

\* The continuation of executeWorkflow once translate has returned tr.
AfterTranslate(tr) ==
    /\ translateResult' = tr
    /\ wfResult' = Return(WorkflowSuccess(query, targetLanguage, researchResult,
                                          draftResult, tr))
    /\ wfPc' = "Done"

\* translate calls callToolDirect('translate-text', ...).
TranslateCall ==
    /\ wfPc = "Translating"
    /\ calls' = Bump(calls, "translate-text")
    /\ IF callToolDirectThrows("deepL")
       THEN /\ AfterTranslate(translate(DataOf(draftResult), targetLanguage,
                                        Throw(NotConnected)))
            /\ settled' = [settled EXCEPT !["translate-text"] = Throw(NotConnected)]
            /\ sent' = sent
       ELSE /\ sent' = Append(sent, CallToolRequest("translate-text",
                                     TranslateArgs(DataOf(draftResult), targetLanguage)))
            /\ wfPc' = "TranslateAwait"
            /\ UNCHANGED <<translateResult, wfResult, settled>>
    /\ UNCHANGED <<utilVars, clientVars, query, targetLanguage, researchResult, draftResult,
                   raised, run>>

\* client.request of the translation tool settles with reply.
TranslateReturn(reply) ==
    /\ wfPc = "TranslateAwait"
    /\ AfterTranslate(translate(DataOf(draftResult), targetLanguage, reply))
    /\ settled' = [settled EXCEPT !["translate-text"] = reply]
    /\ UNCHANGED <<utilVars, clientVars, query, targetLanguage, researchResult, draftResult,
                   sent, calls, raised, run>>

Next ==
    \/ Initialize
    \/ \E c \in Clients : PortFound(c)
    \/ \E c \in Clients : PortFails(c)
    \/ \E c \in Clients : AttemptSucceeds(c)
    \/ \E c \in Clients : AttemptFails(c)
    \/ \E q \in Queries, arg \in Languages \cup {Omitted} : StartWorkflow(q, arg)
    \/ ResearchCall
    \/ \E reply \in Replies : ResearchReturn(reply)
    \/ Draft
    \/ TranslateCall
    \/ \E reply \in Replies : TranslateReturn(reply)

Spec == Init /\ [][Next]_vars

\* An exception e leaves the awaited step (it is thrown past the step's own
\* try/catch, for instance by the code the step's catch block itself runs) and
\* reaches the catch branch of executeWorkflow.
StepRaises(e) ==
    /\ wfPc \in {"Researching", "ResearchAwait", "Drafting", "Translating",
                 "TranslateAwait"}
    /\ raised' = e
    /\ wfResult' = WorkflowCatch(e)
    /\ wfPc' = "Done"
    /\ UNCHANGED <<utilVars, clientVars, query, targetLanguage, researchResult, draftResult,
                   translateResult, sent, calls, settled, run>>

NextFault ==
    \/ Next
    \/ \E e \in Thrown : StepRaises(e)

\* The agent with exceptions escaping the steps.
SpecFault == Init /\ [][NextFault]_vars

---------------------------------------------------------------------------
(* utils.ts: callWithRetry                                                 *)

\* `maxRetries = 3` and `baseDelayMs = 500`
DefaultMaxRetries == 3
DefaultBaseDelayMs == 500

\* Largest maxRetries the model passes.
MaxAttemptsBound == 4

\* The arguments a caller may pass: a number, or nothing (the default applies).
Given(n) == [given |-> TRUE, value |-> n]
NotGiven == [given |-> FALSE]
MaxRetriesArgs == {Given(n) : n \in -1..MaxAttemptsBound} \cup {NotGiven}
BaseDelayArgs == {Given(100), Given(1000), NotGiven}
OrDefault(arg, default) == IF arg.given THEN arg.value ELSE default

\* What callFn may resolve to and what it may throw.
RetryValues == {"v1", "v2"}
RetryErrors == {Err("fail-a"), Err("fail-b")}

RECURSIVE Pow2(_)
\* Math.pow(2, n) for n >= 0
Pow2(n) == IF n <= 0 THEN 1 ELSE 2 * Pow2(n - 1)

\* `baseDelayMs * Math.pow(2, attempt)`
RetryDelay(base, attempt) == base * Pow2(attempt)

\* Mutant of RetryLoop: the loop test is `attempt <= maxRetries`.
RetryLoop_OffByOne(attempt, max, invocations) ==
    IF attempt <= max
    THEN /\ rtPc' = "calling"
         /\ rtInvocations' = invocations + 1
         /\ rtResult' = rtResult
    ELSE /\ rtPc' = "done"
         /\ rtInvocations' = invocations
         /\ rtResult' = Throw(Err("Exceeded max retries"))

\* The head of the while loop: callFn is invoked when attempt < maxRetries, else
\* the loop is left and 'Exceeded max retries' is thrown.
RetryLoop(attempt, max, invocations) ==
    IF attempt < max
    THEN /\ rtPc' = "calling"
         /\ rtInvocations' = invocations + 1
         /\ rtResult' = rtResult
    ELSE /\ rtPc' = "done"
         /\ rtInvocations' = invocations
         /\ rtResult' = Throw(Err("Exceeded max retries"))

\* callWithRetry(callFn, maxArg, baseArg) is called.
RetryStart(maxArg, baseArg) ==
    /\ rtPc = "idle"
    /\ rtMax' = OrDefault(maxArg, DefaultMaxRetries)
    /\ rtBase' = OrDefault(baseArg, DefaultBaseDelayMs)
    /\ rtAttempt' = 0
    /\ RetryLoop(0, OrDefault(maxArg, DefaultMaxRetries), 0)
    /\ UNCHANGED <<rtThrown, rtWaits>>
    /\ UNCHANGED <<agentVars, clientVars, occupied, listenerVars, portVars, handshakeVars>>

\* callFn resolves with v: callWithRetry returns it.
RetryOpReturns(v) ==
    /\ rtPc = "calling"
    /\ rtResult' = Return(v)
    /\ rtPc' = "done"
    /\ UNCHANGED <<rtMax, rtBase, rtAttempt, rtInvocations, rtThrown, rtWaits>>
    /\ UNCHANGED <<agentVars, clientVars, occupied, listenerVars, portVars, handshakeVars>>

\* Mutant of RetryCatch: the delay is baseDelayMs * 2^(attempt - 1).
RetryCatch_DelayFromZero(e) ==
    /\ rtAttempt' = rtAttempt + 1
    /\ IF rtAttempt + 1 = rtMax
       THEN /\ rtResult' = Throw(e)
            /\ rtPc' = "done"
            /\ rtWaits' = rtWaits
       ELSE /\ rtWaits' = Append(rtWaits, RetryDelay(rtBase, rtAttempt))
            /\ rtPc' = "sleeping"
            /\ rtResult' = rtResult

\* Mutant of RetryCatch: the error thrown at the end is the first one caught.
RetryCatch_FirstError(e) ==
    /\ rtAttempt' = rtAttempt + 1
    /\ IF rtAttempt + 1 = rtMax
       THEN /\ rtResult' = Throw(IF rtThrown = <<>> THEN e ELSE rtThrown[1])
            /\ rtPc' = "done"
            /\ rtWaits' = rtWaits
       ELSE /\ rtWaits' = Append(rtWaits, RetryDelay(rtBase, rtAttempt + 1))
            /\ rtPc' = "sleeping"
            /\ rtResult' = rtResult

\* The catch block: attempt++, then the caught error is thrown when attempt
\* equals maxRetries, else the timer is set.
RetryCatch(e) ==
    /\ rtAttempt' = rtAttempt + 1
    /\ IF rtAttempt + 1 = rtMax
       THEN /\ rtResult' = Throw(e)
            /\ rtPc' = "done"
            /\ rtWaits' = rtWaits
       ELSE /\ rtWaits' = Append(rtWaits, RetryDelay(rtBase, rtAttempt + 1))
            /\ rtPc' = "sleeping"
            /\ rtResult' = rtResult

\* callFn throws e.
RetryOpThrows(e) ==
    /\ rtPc = "calling"
    /\ rtThrown' = Append(rtThrown, e)
    /\ RetryCatch(e)
    /\ UNCHANGED <<rtMax, rtBase, rtInvocations>>
    /\ UNCHANGED <<agentVars, clientVars, occupied, listenerVars, portVars, handshakeVars>>

\* The timer fires: the loop goes round.
RetryWake ==
    /\ rtPc = "sleeping"
    /\ RetryLoop(rtAttempt, rtMax, rtInvocations)
    /\ UNCHANGED <<rtMax, rtBase, rtAttempt, rtThrown, rtWaits>>
    /\ UNCHANGED <<agentVars, clientVars, occupied, listenerVars, portVars, handshakeVars>>

NextRetry ==
    \/ \E maxArg \in MaxRetriesArgs, baseArg \in BaseDelayArgs : RetryStart(maxArg, baseArg)
    \/ \E v \in RetryValues : RetryOpReturns(v)
    \/ \E e \in RetryErrors : RetryOpThrows(e)
    \/ RetryWake

\* One call of callWithRetry with any arguments and any behaviour of callFn.
SpecRetry == Init /\ [][NextRetry]_vars

---------------------------------------------------------------------------
(* oauthUtils.ts: waitForOAuthCallback                                     *)

\* `const CALLBACK_PORT_START = 8090`
CALLBACK_PORT_START == 8090

\* The ports other processes may hold are CALLBACK_PORT_START .. +PortSpan.
PortSpan == 2
\* At most MaxRequests requests reach one listener.
MaxRequests == 2
\* At most MaxBinds calls of server.listen are followed per listener.
MaxBinds == 3

Ports == CALLBACK_PORT_START..(CALLBACK_PORT_START + PortSpan)
CallbackPorts == {CALLBACK_PORT_START, CALLBACK_PORT_START + 1}

\* The ports a listen call finds in use (EADDRINUSE): those held by other
\* processes and those this process listens on.
InUse == occupied \cup lingering \cup ({lsBound, fpHeld} \ {0})

\* searchParams.get: null when the parameter is absent, else its value, which
\* may be the empty string.
NoParam == "<null>"
CodeParams == {NoParam, "", "abc123", "xyz789"}
ErrorParams == {NoParam, "", "access_denied"}
\* `if (code)`: null and '' are falsy.
Truthy(param) == param # NoParam /\ param # ""

\* The errors server.listen may fail with apart from EADDRINUSE.
ListenError(code) == [isError |-> TRUE, message |-> "listen " \o code, code |-> code]
ListenErrors == {ListenError("EACCES"), ListenError("EADDRNOTAVAIL")}

\* Mutant of Settle: a later resolve or reject replaces the outcome.
Settle_Overwrite(promise, outcome) == outcome

\* resolve/reject of the promise waitForOAuthCallback returns: only the first
\* one settles it.
Settle(promise, outcome) == IF promise = None THEN outcome ELSE promise

\* The listener with any ports held by other processes.
InitListenerEnv ==
    /\ InitAgent
    /\ InitRetry
    /\ InitListener
    /\ InitPort
    /\ InitHandshake
    /\ occupied \in SUBSET Ports

\* waitForOAuthCallback(port) is called: the server is created and
\* server.listen(port) is called.
ListenerStart(port) ==
    /\ lsPc = "idle"
    /\ lsPort' = port
    /\ lsAttempt' = port
    /\ lsBinds' = <<port>>
    /\ lsPc' = "binding"
    /\ UNCHANGED <<lsBound, lsPromise, lsResponses, lsRequests, lsTimers, lsScheduled>>
    /\ UNCHANGED <<agentVars, clientVars, retryVars, occupied, portVars, handshakeVars>>

\* The listen call succeeds: the server listens on the port.
ListenerBound ==
    /\ lsPc = "binding"
    /\ lsAttempt \notin InUse
    /\ lsBound' = lsAttempt
    /\ lsPc' = "listening"
    /\ UNCHANGED <<lsPort, lsAttempt, lsBinds, lsPromise, lsResponses, lsRequests,
                   lsTimers, lsScheduled>>
    /\ UNCHANGED <<agentVars, clientVars, retryVars, occupied, portVars, handshakeVars>>

\* The listen call fails with EADDRINUSE: the 'error' handler calls
\* server.listen(callbackPort + 1).
ListenerAddrInUse ==
    /\ lsPc = "binding"
    /\ lsAttempt \in InUse
    /\ Len(lsBinds) < MaxBinds
    /\ lsAttempt' = lsPort + 1
    /\ lsBinds' = Append(lsBinds, lsPort + 1)
    /\ UNCHANGED <<lsPc, lsPort, lsBound, lsPromise, lsResponses, lsRequests,
                   lsTimers, lsScheduled>>
    /\ UNCHANGED <<agentVars, clientVars, retryVars, occupied, portVars, handshakeVars>>

\* The listen call fails with another error: the 'error' handler rejects.
ListenerBindError(e) ==
    /\ lsPc = "binding"
    /\ lsAttempt \notin InUse
    /\ lsPromise' = Settle(lsPromise, Throw(e))
    /\ lsPc' = "failed"
    /\ UNCHANGED <<lsPort, lsAttempt, lsBinds, lsBound, lsResponses, lsRequests,
                   lsTimers, lsScheduled>>
    /\ UNCHANGED <<agentVars, clientVars, retryVars, occupied, portVars, handshakeVars>>

\* Mutant of ListenerFavicon: the `return` of the favicon branch is missing, so
\* the probe is handled like a request without code and error.
ListenerFavicon_FallsThrough ==
    /\ lsPc = "listening"
    /\ Len(lsResponses) < MaxRequests
    /\ lsResponses' = Append(lsResponses, 404)
    /\ lsTimers' = lsTimers + 1
    /\ lsScheduled' = lsScheduled + 1
    /\ lsPromise' = Settle(lsPromise, Throw(Err("No authorization code provided")))
    /\ UNCHANGED <<lsPc, lsPort, lsAttempt, lsBound, lsBinds, lsRequests>>
    /\ UNCHANGED <<agentVars, clientVars, retryVars, occupied, portVars, handshakeVars>>

\* A request for /favicon.ico: 404, nothing else.
ListenerFavicon ==
    /\ lsPc = "listening"
    /\ Len(lsResponses) < MaxRequests
    /\ lsResponses' = Append(lsResponses, 404)
    /\ UNCHANGED <<lsPc, lsPort, lsAttempt, lsBound, lsBinds, lsPromise, lsRequests,
                   lsTimers, lsScheduled>>
    /\ UNCHANGED <<agentVars, clientVars, retryVars, occupied, portVars, handshakeVars>>

\* Mutant of CallbackOutcome: the error parameter is looked at before the code.
CallbackOutcome_ErrorFirst(code, error) ==
    IF Truthy(error)
    THEN [status |-> 400, settle |-> Throw(Err("OAuth authorization failed: " \o error))]
    ELSE IF Truthy(code)
    THEN [status |-> 200, settle |-> Return(code)]
    ELSE [status |-> 400, settle |-> Throw(Err("No authorization code provided"))]

\* The three branches of the request handler: the status written and the
\* resolve or reject made.
CallbackOutcome(code, error) ==
    IF Truthy(code)
    THEN [status |-> 200, settle |-> Return(code)]
    ELSE IF Truthy(error)
    THEN [status |-> 400, settle |-> Throw(Err("OAuth authorization failed: " \o error))]
    ELSE [status |-> 400, settle |-> Throw(Err("No authorization code provided"))]

\* Any other request, with the code and error parameters of its URL: the
\* response is written, the promise is resolved or rejected and closeServer is
\* set to run after 1000 ms.
ListenerRequest(code, error) ==
    /\ lsPc = "listening"
    /\ Len(lsResponses) < MaxRequests
    /\ LET o == CallbackOutcome(code, error)
       IN /\ lsResponses' = Append(lsResponses, o.status)
          /\ lsPromise' = Settle(lsPromise, o.settle)
    /\ lsRequests' = Append(lsRequests, [code |-> code, error |-> error])
    /\ lsTimers' = lsTimers + 1
    /\ lsScheduled' = lsScheduled + 1
    /\ UNCHANGED <<lsPc, lsPort, lsAttempt, lsBound, lsBinds>>
    /\ UNCHANGED <<agentVars, clientVars, retryVars, occupied, portVars, handshakeVars>>

\* Mutant of ListenerTimer: closeServer does not close the server.
ListenerTimer_NoClose ==
    /\ lsTimers > 0
    /\ lsTimers' = lsTimers - 1
    /\ UNCHANGED <<lsPc, lsBound, lsPort, lsAttempt, lsBinds, lsPromise, lsResponses,
                   lsRequests, lsScheduled>>
    /\ UNCHANGED <<agentVars, clientVars, retryVars, occupied, portVars, handshakeVars>>

\* A closeServer timer fires: the server is closed if it is listening.
ListenerTimer ==
    /\ lsTimers > 0
    /\ lsTimers' = lsTimers - 1
    /\ lsPc' = IF lsPc = "listening" THEN "closed" ELSE lsPc
    /\ lsBound' = IF lsPc = "listening" THEN 0 ELSE lsBound
    /\ UNCHANGED <<lsPort, lsAttempt, lsBinds, lsPromise, lsResponses, lsRequests,
                   lsScheduled>>
    /\ UNCHANGED <<agentVars, clientVars, retryVars, occupied, portVars, handshakeVars>>

NextListener ==
    \/ \E port \in CallbackPorts : ListenerStart(port)
    \/ ListenerBound
    \/ ListenerAddrInUse
    \/ \E e \in ListenErrors : ListenerBindError(e)
    \/ ListenerFavicon
    \/ \E code \in CodeParams, error \in ErrorParams : ListenerRequest(code, error)
    \/ ListenerTimer

\* One callback listener, any requests, any ports held by other processes.
SpecListener == InitListenerEnv /\ [][NextListener]_vars

\* setTimeout(closeServer, 1000): a timer that was set fires.
SpecListenerFair == SpecListener /\ WF_vars(ListenerTimer)

---------------------------------------------------------------------------
(* oauthUtils.ts: findAvailablePort                                        *)

\* One listen call of a probe server and how it ended: "listening",
\* "EADDRINUSE" or the code of another error.
Probe(port, outcome) == [port |-> port, outcome |-> outcome]

\* The search with any ports held by other processes.
InitPortEnv ==
    /\ InitAgent
    /\ InitRetry
    /\ InitListener
    /\ InitPort
    /\ InitHandshake
    /\ occupied \in SUBSET Ports

\* findAvailablePort(startPort) is called: a server is created and
\* server.listen(startPort) is called.
FindStart(startPort) ==
    /\ fpPc = "idle"
    /\ fpStart' = startPort
    /\ fpPort' = startPort
    /\ fpPc' = "probing"
    /\ UNCHANGED <<fpHeld, fpProbed, fpResult>>
    /\ UNCHANGED <<agentVars, clientVars, retryVars, occupied, listenerVars, handshakeVars>>

\* The listen call fails with EADDRINUSE: the promise is resolved with
\* findAvailablePort(startPort + 1), whose call creates the next server and
\* calls listen on the next port.
FindInUse ==
    /\ fpPc = "probing"
    /\ fpPort \in InUse
    /\ fpProbed' = Append(fpProbed, Probe(fpPort, "EADDRINUSE"))
    /\ fpPort' = fpPort + 1
    /\ UNCHANGED <<fpPc, fpStart, fpHeld, fpResult>>
    /\ UNCHANGED <<agentVars, clientVars, retryVars, occupied, listenerVars, handshakeVars>>

\* Mutant of FindBindError: every error advances the search.
FindBindError_Advances(e) ==
    /\ fpPc = "probing"
    /\ fpPort \notin InUse
    /\ Len(fpProbed) <= PortSpan
    /\ fpProbed' = Append(fpProbed, Probe(fpPort, e.code))
    /\ fpPort' = fpPort + 1
    /\ UNCHANGED <<fpPc, fpStart, fpHeld, fpResult>>
    /\ UNCHANGED <<agentVars, clientVars, retryVars, occupied, listenerVars, handshakeVars>>

\* The listen call fails with another error: the promise is rejected with it,
\* and so is every promise of the calls around it.
FindBindError(e) ==
    /\ fpPc = "probing"
    /\ fpPort \notin InUse
    /\ fpProbed' = Append(fpProbed, Probe(fpPort, e.code))
    /\ fpResult' = Throw(e)
    /\ fpPc' = "done"
    /\ UNCHANGED <<fpStart, fpPort, fpHeld>>
    /\ UNCHANGED <<agentVars, clientVars, retryVars, occupied, listenerVars, handshakeVars>>

\* Mutant of FindBound: the port is resolved without closing the probe server.
FindBound_NoClose ==
    /\ fpPc = "probing"
    /\ fpPort \notin InUse
    /\ fpProbed' = Append(fpProbed, Probe(fpPort, "listening"))
    /\ fpHeld' = fpPort
    /\ fpResult' = Return(fpPort)
    /\ fpPc' = "done"
    /\ UNCHANGED <<fpStart, fpPort>>
    /\ UNCHANGED <<agentVars, clientVars, retryVars, occupied, listenerVars, handshakeVars>>

\* The listen call succeeds: the callback reads the port and calls
\* server.close.
FindBound ==
    /\ fpPc = "probing"
    /\ fpPort \notin InUse
    /\ fpProbed' = Append(fpProbed, Probe(fpPort, "listening"))
    /\ fpHeld' = fpPort
    /\ fpPc' = "closing"
    /\ UNCHANGED <<fpStart, fpPort, fpResult>>
    /\ UNCHANGED <<agentVars, clientVars, retryVars, occupied, listenerVars, handshakeVars>>

\* The probe server has closed: the close callback resolves the port.
FindClosed ==
    /\ fpPc = "closing"
    /\ fpResult' = Return(fpHeld)
    /\ fpHeld' = 0
    /\ fpPc' = "done"
    /\ UNCHANGED <<fpStart, fpPort, fpProbed>>
    /\ UNCHANGED <<agentVars, clientVars, retryVars, occupied, listenerVars, handshakeVars>>

NextPort ==
    \/ \E startPort \in Ports : FindStart(startPort)
    \/ FindInUse
    \/ \E e \in ListenErrors : FindBindError(e)
    \/ FindBound
    \/ FindClosed

\* One search for a port, any ports held by other processes.
SpecPort == InitPortEnv /\ [][NextPort]_vars

---------------------------------------------------------------------------
(* mcpClient.ts: connectWithoutLoop and attemptConnection; agent.ts:        *)
(* initialize                                                               *)

\* At most MaxHsAttempts calls of client.connect are followed per client.
MaxHsAttempts == 3

\* `new InteractiveOAuthClient(exaSearchUrl, 8090)` and `(deepLTranslateUrl, 8091)`
StartingPort(c) == IF c = "exa" THEN 8090 ELSE 8091

\* The errors client.connect and transport.finishAuth may throw that are no
\* UnauthorizedError.
ConnectErrors == {Err("boom")}

\* The callback requests of an authorization server's redirect.
RedirectCodes == {NoParam, "abc123"}
RedirectErrors == {NoParam, "access_denied"}

\* The browser has not yet been redirected to the callback URL of the listener:
\* an authorization server redirects once per authorization.
RedirectPending == lsPromise = None

\* connectWithoutLoop up to its first await: findAvailablePort(startingPort)
\* is called, which creates a server and calls listen.
connectWithoutLoop(c) ==
    /\ fpPc' = "probing"
    /\ fpStart' = StartingPort(c)
    /\ fpPort' = StartingPort(c)
    /\ fpHeld' = 0
    /\ fpProbed' = <<>>
    /\ fpResult' = None

\* connectWithoutLoop of c rejects with e, and so does initialize, which
\* awaits it.
ConnectRejects(c, e) ==
    /\ connPc' = [connPc EXCEPT ![c] = "failed"]
    /\ hsResult' = [hsResult EXCEPT ![c] = Throw(e)]
    /\ initPc' = "failed"
    /\ initResult' = Throw(e)

\* initialize() is called: it awaits exaClient.connectWithoutLoop().
InitializeCall ==
    /\ initPc = "notCalled"
    /\ initPc' = "exa"
    /\ connPc' = [connPc EXCEPT !["exa"] = "findingPort"]
    /\ connectWithoutLoop("exa")
    /\ UNCHANGED <<client, agentVars, retryVars, occupied, listenerVars, handshakeVars>>

\* findAvailablePort resolved: the provider is created with the callback URL of
\* that port, this.client is set, and attemptConnection calls client.connect.
PortResolved(c) ==
    /\ connPc[c] = "findingPort"
    /\ fpPc = "done" /\ fpResult.kind = "return"
    /\ hsPort' = [hsPort EXCEPT ![c] = fpResult.value]
    /\ client' = [client EXCEPT ![c] = "created"]
    /\ connPc' = [connPc EXCEPT ![c] = "attempting"]
    /\ hsAttempts' = [hsAttempts EXCEPT ![c] = 1]
    /\ UNCHANGED <<initPc, hsListeners, hsBrowser, hsExchanges, hsResult, initResult,
                   lingering>>
    /\ UNCHANGED <<agentVars, retryVars, occupied, listenerVars, portVars>>

\* findAvailablePort rejected.
PortRejected(c) ==
    /\ connPc[c] = "findingPort"
    /\ fpPc = "done" /\ fpResult.kind = "throw"
    /\ ConnectRejects(c, fpResult.exc)
    /\ UNCHANGED <<client, hsPort, hsAttempts, hsListeners, hsBrowser, hsExchanges, lingering>>
    /\ UNCHANGED <<agentVars, retryVars, occupied, listenerVars, portVars>>

\* During client.connect the transport's authorization asks the provider to
\* redirect: the redirect handler calls openBrowser.
ConnectRedirects(c) ==
    /\ connPc[c] = "attempting"
    /\ connPc' = [connPc EXCEPT ![c] = "redirected"]
    /\ hsBrowser' = [hsBrowser EXCEPT ![c] = @ + 1]
    /\ UNCHANGED <<client, initPc, hsPort, hsAttempts, hsListeners, hsExchanges, hsResult,
                   initResult, lingering>>
    /\ UNCHANGED <<agentVars, retryVars, occupied, listenerVars, portVars>>

\* A new call of waitForOAuthCallback(port): the server is created and
\* server.listen(port) is called.  The server of the call before, when it still
\* listens, stays bound until its closeServer timer fires.
waitForOAuthCallback(port) ==
    /\ lingering' = IF lsPc = "listening" THEN lingering \cup {lsBound} ELSE lingering
    /\ lsPc' = "binding"
    /\ lsPort' = port
    /\ lsAttempt' = port
    /\ lsBinds' = <<port>>
    /\ lsBound' = 0
    /\ lsPromise' = None
    /\ lsResponses' = <<>>
    /\ lsRequests' = <<>>
    /\ lsTimers' = 0
    /\ lsScheduled' = 0

\* client.connect throws an UnauthorizedError: the catch branch calls
\* waitForOAuthCallback(callbackPort) and awaits the code.
ConnectUnauthorized(c) ==
    /\ connPc[c] = "redirected"
    /\ connPc' = [connPc EXCEPT ![c] = "awaitingCode"]
    /\ hsListeners' = [hsListeners EXCEPT ![c] = @ + 1]
    /\ waitForOAuthCallback(hsPort[c])
    /\ UNCHANGED <<client, initPc, hsPort, hsAttempts, hsBrowser, hsExchanges, hsResult,
                   initResult>>
    /\ UNCHANGED <<agentVars, retryVars, occupied, portVars>>

\* Mutant of ConnectThrows: the catch branch throws a new error in place of
\* the one it caught.
ConnectThrows_Wraps(c, e) ==
    /\ connPc[c] = "attempting"
    /\ ConnectRejects(c, Err("Connection failed"))
    /\ UNCHANGED <<client, hsPort, hsAttempts, hsListeners, hsBrowser, hsExchanges, lingering>>
    /\ UNCHANGED <<agentVars, retryVars, occupied, listenerVars, portVars>>

\* client.connect throws another error: the catch branch throws it on.
ConnectThrows(c, e) ==
    /\ connPc[c] = "attempting"
    /\ ConnectRejects(c, e)
    /\ UNCHANGED <<client, hsPort, hsAttempts, hsListeners, hsBrowser, hsExchanges, lingering>>
    /\ UNCHANGED <<agentVars, retryVars, occupied, listenerVars, portVars>>

\* Mutant of ConnectResolves: initialize starts the second client whatever
\* client.connect of the first did, and the first ends as failed.
ConnectResolves_Parallel(c) ==
    /\ connPc[c] = "attempting"
    /\ hsResult' = [hsResult EXCEPT ![c] = Throw(Err("boom"))]
    /\ IF c = "exa"
       THEN /\ connPc' = [connPc EXCEPT !["exa"] = "failed", !["deepL"] = "findingPort"]
            /\ initPc' = "deepL"
            /\ initResult' = initResult
            /\ connectWithoutLoop("deepL")
       ELSE /\ connPc' = [connPc EXCEPT ![c] = "failed"]
            /\ initPc' = "failed"
            /\ initResult' = Throw(Err("boom"))
            /\ UNCHANGED portVars
    /\ UNCHANGED <<client, hsPort, hsAttempts, hsListeners, hsBrowser, hsExchanges, lingering>>
    /\ UNCHANGED <<agentVars, retryVars, occupied, listenerVars>>

\* client.connect resolves: attemptConnection and connectWithoutLoop resolve,
\* and initialize goes on to deepLClient.connectWithoutLoop(), or resolves.
ConnectResolves(c) ==
    /\ connPc[c] = "attempting"
    /\ hsResult' = [hsResult EXCEPT ![c] = Return(Undefined)]
    /\ IF c = "exa"
       THEN /\ connPc' = [connPc EXCEPT !["exa"] = "connected", !["deepL"] = "findingPort"]
            /\ initPc' = "deepL"
            /\ initResult' = initResult
            /\ connectWithoutLoop("deepL")
       ELSE /\ connPc' = [connPc EXCEPT ![c] = "connected"]
            /\ initPc' = "done"
            /\ initResult' = Return(Undefined)
            /\ UNCHANGED portVars
    /\ UNCHANGED <<client, hsPort, hsAttempts, hsListeners, hsBrowser, hsExchanges, lingering>>
    /\ UNCHANGED <<agentVars, retryVars, occupied, listenerVars>>

\* Mutant of CallbackResolved: the code is not exchanged before the next
\* attempt.
CallbackResolved_NoExchange(c) ==
    /\ connPc[c] = "awaitingCode"
    /\ lsPromise # None /\ lsPromise.kind = "return"
    /\ hsAttempts[c] < MaxHsAttempts
    /\ connPc' = [connPc EXCEPT ![c] = "attempting"]
    /\ hsAttempts' = [hsAttempts EXCEPT ![c] = @ + 1]
    /\ UNCHANGED <<client, initPc, hsPort, hsListeners, hsBrowser, hsExchanges, hsResult,
                   initResult, lingering>>
    /\ UNCHANGED <<agentVars, retryVars, occupied, listenerVars, portVars>>

\* waitForOAuthCallback resolved with the code: transport.finishAuth(authCode)
\* is called.
CallbackResolved(c) ==
    /\ connPc[c] = "awaitingCode"
    /\ lsPromise # None /\ lsPromise.kind = "return"
    /\ connPc' = [connPc EXCEPT ![c] = "exchanging"]
    /\ hsExchanges' = [hsExchanges EXCEPT ![c] = @ + 1]
    /\ UNCHANGED <<client, initPc, hsPort, hsAttempts, hsListeners, hsBrowser, hsResult,
                   initResult, lingering>>
    /\ UNCHANGED <<agentVars, retryVars, occupied, listenerVars, portVars>>

\* Mutant of CallbackRejected: the rejection is swallowed and the connection is
\* attempted again.
CallbackRejected_Retries(c) ==
    /\ connPc[c] = "awaitingCode"
    /\ lsPromise # None /\ lsPromise.kind = "throw"
    /\ hsAttempts[c] < MaxHsAttempts
    /\ connPc' = [connPc EXCEPT ![c] = "attempting"]
    /\ hsAttempts' = [hsAttempts EXCEPT ![c] = @ + 1]
    /\ UNCHANGED <<client, initPc, hsPort, hsListeners, hsBrowser, hsExchanges, hsResult,
                   initResult, lingering>>
    /\ UNCHANGED <<agentVars, retryVars, occupied, listenerVars, portVars>>

\* waitForOAuthCallback rejected: the error leaves the catch branch.
CallbackRejected(c) ==
    /\ connPc[c] = "awaitingCode"
    /\ lsPromise # None /\ lsPromise.kind = "throw"
    /\ ConnectRejects(c, lsPromise.exc)
    /\ UNCHANGED <<client, hsPort, hsAttempts, hsListeners, hsBrowser, hsExchanges, lingering>>
    /\ UNCHANGED <<agentVars, retryVars, occupied, listenerVars, portVars>>

\* transport.finishAuth resolved: attemptConnection calls itself, which makes a
\* new transport and calls client.connect.
FinishAuthResolves(c) ==
    /\ connPc[c] = "exchanging"
    /\ hsAttempts[c] < MaxHsAttempts
    /\ connPc' = [connPc EXCEPT ![c] = "attempting"]
    /\ hsAttempts' = [hsAttempts EXCEPT ![c] = @ + 1]
    /\ UNCHANGED <<client, initPc, hsPort, hsListeners, hsBrowser, hsExchanges, hsResult,
                   initResult, lingering>>
    /\ UNCHANGED <<agentVars, retryVars, occupied, listenerVars, portVars>>

\* transport.finishAuth threw: the error leaves the catch branch.
FinishAuthThrows(c, e) ==
    /\ connPc[c] = "exchanging"
    /\ ConnectRejects(c, e)
    /\ UNCHANGED <<client, hsPort, hsAttempts, hsListeners, hsBrowser, hsExchanges, lingering>>
    /\ UNCHANGED <<agentVars, retryVars, occupied, listenerVars, portVars>>

\* The closeServer timer of an earlier listener fires.
LingerClose(port) ==
    /\ port \in lingering
    /\ lingering' = lingering \ {port}
    /\ UNCHANGED <<hsPort, hsAttempts, hsListeners, hsBrowser, hsExchanges, hsResult,
                   initResult>>
    /\ UNCHANGED <<agentVars, clientVars, retryVars, occupied, listenerVars, portVars>>

\* Another process binds a port that is free.
PortTaken(port) ==
    /\ port \notin InUse
    /\ occupied' = occupied \cup {port}
    /\ UNCHANGED <<agentVars, clientVars, retryVars, listenerVars, portVars, handshakeVars>>

NextConnect ==
    \/ InitializeCall
    \/ FindInUse
    \/ \E e \in ListenErrors : FindBindError(e)
    \/ FindBound
    \/ FindClosed
    \/ \E c \in Clients : PortResolved(c)
    \/ \E c \in Clients : PortRejected(c)
    \/ \E c \in Clients : ConnectRedirects(c)
    \/ \E c \in Clients : ConnectUnauthorized(c)
    \/ \E c \in Clients, e \in ConnectErrors : ConnectThrows(c, e)
    \/ \E c \in Clients : ConnectResolves(c)
    \/ ListenerBound
    \/ ListenerAddrInUse
    \/ \E e \in ListenErrors : ListenerBindError(e)
    \/ RedirectPending /\ ListenerFavicon
    \/ \E code \in RedirectCodes, error \in RedirectErrors :
          RedirectPending /\ ListenerRequest(code, error)
    \/ ListenerTimer
    \/ \E c \in Clients : CallbackResolved(c)
    \/ \E c \in Clients : CallbackRejected(c)
    \/ \E c \in Clients : FinishAuthResolves(c)
    \/ \E c \in Clients, e \in ConnectErrors : FinishAuthThrows(c, e)
    \/ \E port \in Ports : LingerClose(port)
    \/ \E port \in Ports : PortTaken(port)

\* initialize of the agent, with the port search and the callback listener of
\* each client, beside other processes that bind ports.
SpecConnect == Init /\ [][NextConnect]_vars

---------------------------------------------------------------------------
(* The claims                                                              *)

Finished == wfPc = "Done"
Has(r, f) == f \in DOMAIN r
\* The step results of the run, once assigned.
ResearchDone == researchResult # None
DraftDone == draftResult # None
TranslateDone == translateResult # None
\* The translation tool call of this run has failed (it threw).
TranslationFailed ==
    settled["translate-text"] # None /\ settled["translate-text"].kind = "throw"
SearchFailed ==
    settled["web_search_exa"] # None /\ settled["web_search_exa"].kind = "throw"
\* The requests of this run that name tool.
RequestsOf(tool) == {i \in 1..Len(sent) : sent[i].params.name = tool}

\* C1: translate returns success=true whatever the translation tool call did, and
\* a run whose research and draft succeeded ends with success=true and
\* step='workflow'.
C1_TranslateNeverFails ==
    /\ TranslateDone =>
         /\ translateResult.success
         /\ translateResult.step = "translate"
    /\ (Finished /\ ResearchDone /\ DraftDone
          /\ researchResult.success /\ draftResult.success) =>
         /\ wfResult.kind = "return"
         /\ wfResult.value.success
         /\ wfResult.value.step = "workflow"

\* C1 witness: a finished run whose translation tool call threw.
C1_Witness ==
    /\ Finished /\ TranslateDone /\ TranslationFailed
    /\ Len(sent) = 2
    /\ wfResult.value.step = "workflow"

\* The fallback payload as the specification lists it: four fields.
FallbackFourFields(text, lang) ==
    [original_text |-> text, translated_text |-> text,
     fallback_applied |-> TRUE, target_language |-> lang]

\* C2 as stated: when the translation failed, the translate step's data equals
\* exactly the four-field fallback payload, and the run has success=true.
C2_Original ==
    (Finished /\ TranslateDone /\ TranslationFailed) =>
        /\ translateResult.data = FallbackFourFields(draftResult.data, targetLanguage)
        /\ wfResult.value.success

\* C2 amended: when the translation failed, the translate step's data equals the
\* four fields of the claim together with a fifth field, warning = 'Translation
\* failed, returning original text', and the run has success=true.
C2_Amended ==
    (Finished /\ TranslateDone /\ TranslationFailed) =>
        /\ translateResult.data =
             [original_text |-> draftResult.data,
              translated_text |-> draftResult.data,
              fallback_applied |-> TRUE,
              target_language |-> targetLanguage,
              warning |-> "Translation failed, returning original text"]
        /\ wfResult.kind = "return"
        /\ wfResult.value.success
        /\ wfResult.value.data.translation = translateResult.data

\* C2 witness: research and draft succeeded, the translation request was sent for
\* a language other than the default and failed.
C2_Witness ==
    /\ Finished /\ TranslateDone /\ TranslationFailed
    /\ researchResult.success /\ draftResult.success
    /\ targetLanguage = "fr"
    /\ RequestsOf("translate-text") # {}

\* C3: when the primary translation tool call fails, translate calls a secondary
\* translation tool (a second callToolDirect of the translate step), and when
\* that call succeeds the translation data carries fallback_used and
\* primary_error = the primary failure's message.
C3_SecondaryTranslation ==
    (Finished /\ TranslateDone /\ TranslationFailed) =>
        /\ calls["translate-text"] >= 2
        /\ (~Has(translateResult.data, "fallback_applied") =>
              /\ Has(translateResult.data, "fallback_used")
              /\ Has(translateResult.data, "primary_error")
              /\ translateResult.data.primary_error =
                   ErrorMessage(settled["translate-text"].exc, "Unknown error"))

\* C4: a failed research result is what executeWorkflow returns, and neither
\* draft nor translate nor any translation tool call happens in that run.
C4_ResearchFailureHalts ==
    (ResearchDone /\ ~researchResult.success) =>
        /\ Finished
        /\ wfResult = Return(researchResult)
        /\ wfResult.value.step = "research"
        /\ Has(wfResult.value, "error")
        /\ calls["draft"] = 0
        /\ calls["translate"] = 0
        /\ calls["translate-text"] = 0
        /\ RequestsOf("translate-text") = {}
        /\ draftResult = None
        /\ translateResult = None

\* C4 witness: the search request was sent and failed.
C4_Witness ==
    /\ Finished /\ ResearchDone /\ ~researchResult.success
    /\ RequestsOf("web_search_exa") # {}

\* C5: research retries the search tool: a run whose search request failed and
\* whose research returned a failed result has called the search tool exactly 3
\* times.
C5_ThreeAttempts ==
    (Finished /\ ResearchDone /\ ~researchResult.success
       /\ RequestsOf("web_search_exa") # {}) =>
        calls["web_search_exa"] = 3

TransientMessages == {"Request timeout"}
\* The classification of the specification, on the messages of the model.
ClassifyError(message) ==
    IF message \in TransientMessages
    THEN [errorType |-> "transient", retryable |-> TRUE]
    ELSE [errorType |-> "permanent", retryable |-> FALSE]

\* C6: every failed research result carries metadata classifying its error.
C6_FailedResearchClassified ==
    (ResearchDone /\ ~researchResult.success) =>
        /\ Has(researchResult, "metadata")
        /\ researchResult.metadata = ClassifyError(researchResult.error)

\* C7: when the search tool call fails, research does not fail (it falls back to
\* empty results) and the run goes on to the draft step.
C7_ResearchFallsBack ==
    (Finished /\ SearchFailed /\ RequestsOf("web_search_exa") # {}) =>
        /\ researchResult.success
        /\ calls["draft"] >= 1

\* C8: draft is executed at most once per run, and a failed draft result is
\* what executeWorkflow returns, translate never being invoked.
C8_DraftOnceAndHalts ==
    /\ calls["draft"] <= 1
    /\ (DraftDone /\ ~draftResult.success) =>
         /\ Finished
         /\ wfResult = Return(draftResult)
         /\ wfResult.value.step = "draft"
         /\ calls["translate"] = 0
         /\ calls["translate-text"] = 0
         /\ RequestsOf("translate-text") = {}
         /\ translateResult = None

\* C8 witness: a run in which draft was executed and failed.
C8_Witness ==
    /\ Finished /\ DraftDone /\ ~draftResult.success
    /\ calls["draft"] = 1

\* success=false implies error is set; success=true implies data is set.
WellFormed(r) ==
    /\ ~r.success => Has(r, "error")
    /\ r.success => Has(r, "data")

\* C9: every result of research, draft, translate and executeWorkflow is well
\* formed.
C9_ResultsWellFormed ==
    /\ ResearchDone => WellFormed(researchResult)
    /\ DraftDone => WellFormed(draftResult)
    /\ TranslateDone => WellFormed(translateResult)
    /\ (wfResult # None /\ wfResult.kind = "return") => WellFormed(wfResult.value)

\* C9 witness: a finished run that holds a failed research result of a failed
\* search request.
C9_Witness ==
    /\ Finished /\ ResearchDone /\ ~researchResult.success
    /\ SearchFailed /\ Len(sent) = 1
    /\ wfResult.kind = "return"

\* C10: executeWorkflow never ends by raising; an exception that escaped the
\* steps gives a result with success=false, step='workflow' and the exception's
\* message as error; a run made before initialize ends with a failed result.
C10_NeverRaises ==
    /\ Finished => wfResult.kind = "return"
    /\ (Finished /\ raised # None) =>
         wfResult = Return([success |-> FALSE,
                            error |-> ErrorMessage(raised, "Unknown workflow error"),
                            step |-> "workflow"])
    /\ (Finished /\ initPc = "notCalled") =>
         /\ wfResult.kind = "return"
         /\ ~wfResult.value.success
         /\ Has(wfResult.value, "error")

\* C10 witness: a run made before initialize in which an Error escaped a step.
C10_Witness ==
    /\ Finished /\ initPc = "notCalled"
    /\ raised # None /\ raised.isError
    /\ wfResult.kind = "return"

\* A result with step='workflow' and success=true has been produced.
WorkflowSucceeded ==
    /\ wfResult # None /\ wfResult.kind = "return"
    /\ wfResult.value.step = "workflow" /\ wfResult.value.success

\* C11: a successful workflow result exists only once all three steps have
\* returned, and its data holds the three step outputs of that run (the fallback
\* payload whenever the translation call failed) with workflow_status
\* 'complete'.
C11_WorkflowAggregates ==
    WorkflowSucceeded =>
        /\ Finished
        /\ ResearchDone /\ DraftDone /\ TranslateDone
        /\ calls["research"] = 1 /\ calls["draft"] = 1 /\ calls["translate"] = 1
        /\ wfResult.value.data.research = researchResult.data
        /\ wfResult.value.data.draft = draftResult.data
        /\ wfResult.value.data.translation = translateResult.data
        /\ wfResult.value.data.workflow_status = "complete"
        /\ TranslationFailed =>
             /\ Has(wfResult.value.data.translation, "fallback_applied")
             /\ wfResult.value.data.translation.fallback_applied

\* C11 witness: a successful workflow result of a run whose translation request
\* was sent and failed.
C11_Witness ==
    /\ WorkflowSucceeded /\ TranslationFailed
    /\ RequestsOf("translate-text") # {}
    /\ wfResult.value.data.translation.fallback_applied

RetryDone == rtPc = "done"

\* C12: for maxRetries >= 1, a call of callWithRetry that ends in failure has
\* invoked callFn exactly maxRetries times, every one of which threw, and fails
\* with the very error the last invocation threw.
C12_RethrowsLastError ==
    /\ rtMax >= 1 => rtInvocations <= rtMax
    /\ (RetryDone /\ rtMax >= 1 /\ rtResult.kind = "throw") =>
         /\ rtInvocations = rtMax
         /\ Len(rtThrown) = rtMax
         /\ rtResult = Throw(rtThrown[rtMax])

\* C12 witness: three failing invocations, the last error differing from the
\* first.
C12_Witness ==
    /\ RetryDone /\ rtMax = 3 /\ rtInvocations = 3
    /\ rtResult.kind = "throw"
    /\ rtThrown[1] # rtThrown[3]

\* C13: a call that ends in success after k failures has k < maxRetries, has
\* invoked callFn k+1 times and has waited k times, the i-th wait being
\* baseDelayMs * 2^i; with maxRetries 3, baseDelayMs 100 and two failures the
\* waits are 200 then 400 and callFn is invoked 3 times.
C13_BackoffSchedule ==
    /\ Len(rtWaits) <= Len(rtThrown)
    /\ (RetryDone /\ rtResult.kind = "return") =>
         LET k == Len(rtThrown)
         IN /\ k < rtMax
            /\ rtInvocations = k + 1
            /\ Len(rtWaits) = k
            /\ \A i \in 1..k : rtWaits[i] = rtBase * (2 ^ i)
            /\ (rtMax = 3 /\ rtBase = 100 /\ k = 2) =>
                 /\ rtWaits = <<200, 400>>
                 /\ rtInvocations = 3

\* C13 witness: callWithRetry(op, 3, 100) succeeded after two failures.
C13_Witness ==
    /\ RetryDone /\ rtResult.kind = "return"
    /\ rtMax = 3 /\ rtBase = 100
    /\ Len(rtThrown) = 2 /\ rtInvocations = 3


\* ---- oauthUtils.ts: waitForOAuthCallback ----

Settled == lsPromise # None
\* The responses written to requests other than favicon probes.
Pages == {i \in DOMAIN lsResponses : lsResponses[i] # 404}

\* C14: the first request other than a favicon probe that a listening server
\* handles decides the promise: a non-empty code resolves it to the code; no
\* code and an error rejects it with the message that carries the error; neither
\* rejects it with 'No authorization code provided'.
C14_FirstRequestDecides ==
    Len(lsRequests) >= 1 =>
        LET r == lsRequests[1]
        IN /\ Truthy(r.code) => lsPromise = Return(r.code)
           /\ (~Truthy(r.code) /\ Truthy(r.error)) =>
                lsPromise = Throw(Err("OAuth authorization failed: " \o r.error))
           /\ (~Truthy(r.code) /\ ~Truthy(r.error)) =>
                lsPromise = Throw(Err("No authorization code provided"))

C14_Witness ==
    /\ Len(lsRequests) >= 1
    /\ lsRequests[1] = [code |-> "abc123", error |-> "access_denied"]
    /\ lsPromise = Return("abc123")

\* C15: once the promise of a listener is settled, no step (request, listen
\* error, timer) changes how it is settled.
C15_SettledOnce == [][Settled => lsPromise' = lsPromise]_vars

C15_Witness ==
    /\ Len(lsRequests) = 2
    /\ lsRequests[1].code = "abc123"
    /\ lsRequests[2].code = NoParam
    /\ lsRequests[2].error = "access_denied"
    /\ lsPromise = Return("abc123")

\* C16: a listener writes a response page and sets the shutdown timer for one
\* request only: a request that arrives after the promise is settled gets no
\* page and sets no timer.
C16_SecondRequestInert ==
    /\ Cardinality(Pages) <= 1
    /\ lsScheduled <= 1

\* C17: as long as only favicon probes have arrived, each was answered with 404
\* and the server still listens, the promise is pending and no shutdown timer
\* is set; and when the first other request after a probe has a code, the
\* promise is resolved to that code.
C17_FaviconIgnored ==
    /\ (Len(lsResponses) >= 1 /\ lsRequests = <<>>) =>
         /\ \A i \in DOMAIN lsResponses : lsResponses[i] = 404
         /\ lsPc = "listening"
         /\ ~Settled
         /\ lsTimers = 0 /\ lsScheduled = 0
    /\ (Len(lsResponses) >= 1 /\ lsResponses[1] = 404 /\ Len(lsRequests) >= 1
            /\ Truthy(lsRequests[1].code)) =>
         lsPromise = Return(lsRequests[1].code)

C17_Witness ==
    /\ Len(lsResponses) = 2
    /\ lsResponses = <<404, 200>>
    /\ lsRequests[1].code = "xyz789"
    /\ lsPromise = Return("xyz789")

\* C18: a listener calls listen on callbackPort + 1 at most once.
C18_OneFallbackBind ==
    Cardinality({i \in DOMAIN lsBinds : i > 1 /\ lsBinds[i] = lsPort + 1}) <= 1

\* ---- oauthUtils.ts: findAvailablePort ----

FindDone == fpPc = "done"

\* C19: when findAvailablePort(startPort) returns p, p is the smallest port from
\* startPort on that no other process holds: the ports startPort..p-1 were
\* probed in order and found in use, the listen on p succeeded, and the probe
\* server on p was closed before p was returned.  The search ends in another
\* way only when a listen call failed with another error.
C19_SmallestFreePort ==
    /\ (FindDone /\ fpResult.kind = "return") =>
         LET p == fpResult.value
         IN /\ p >= fpStart
            /\ p \notin occupied
            /\ \A q \in fpStart..(p - 1) : q \in occupied
            /\ Len(fpProbed) = p - fpStart + 1
            /\ \A i \in 1..(p - fpStart) : fpProbed[i] = Probe(fpStart + i - 1, "EADDRINUSE")
            /\ fpProbed[p - fpStart + 1] = Probe(p, "listening")
            /\ fpHeld = 0
    /\ FindDone =>
         \/ fpResult.kind = "return"
         \/ /\ fpResult.kind = "throw"
            /\ fpProbed[Len(fpProbed)].outcome \notin {"listening", "EADDRINUSE"}

C19_Witness ==
    /\ FindDone
    /\ fpStart = CALLBACK_PORT_START
    /\ occupied = {CALLBACK_PORT_START, CALLBACK_PORT_START + 1}
    /\ fpResult = Return(CALLBACK_PORT_START + 2)

\* C20: only a listen call that fails with EADDRINUSE is followed by another
\* listen call, on the next port; a listen call that fails with another error
\* is the last one, and findAvailablePort fails with that error.
C20_OtherErrorStops ==
    /\ \A i \in 1..(Len(fpProbed) - 1) :
         /\ fpProbed[i].outcome = "EADDRINUSE"
         /\ fpProbed[i + 1].port = fpProbed[i].port + 1
    /\ \A i \in DOMAIN fpProbed :
         fpProbed[i].outcome \notin {"listening", "EADDRINUSE"} =>
            /\ FindDone
            /\ fpResult = Throw(ListenError(fpProbed[i].outcome))
            /\ fpPort = fpProbed[i].port
    /\ (fpPc = "probing" /\ fpProbed # <<>>) =>
         /\ fpProbed[Len(fpProbed)].outcome = "EADDRINUSE"
         /\ fpPort = fpProbed[Len(fpProbed)].port + 1

C20_Witness ==
    /\ FindDone
    /\ Len(fpProbed) = 2
    /\ fpProbed[1].outcome = "EADDRINUSE"
    /\ fpProbed[2].outcome = "EACCES"
    /\ fpResult = Throw(ListenError("EACCES"))


\* ---- mcpClient.ts: callToolDirect ----

\* C25: a tool request is handed to a client only when its connect has
\* succeeded.
C25_NoRequestUnlessConnected ==
    /\ RequestsOf("web_search_exa") # {} => connPc["exa"] = "connected"
    /\ RequestsOf("translate-text") # {} => connPc["deepL"] = "connected"

\* ---- agent.ts: executeWorkflow ----

\* C27: in a run each stage is entered at most once and in the order research,
\* draft, translate; draft is called only on a successful research result and
\* translate only on a successful draft result; while one stage is in progress
\* no later stage has been called and the stage has no result yet; a failed
\* result is that of research or of draft, and translate was not called.
C27_StagesInOrder ==
    /\ wfPc \in {"Idle", "Researching", "ResearchAwait", "Drafting", "Translating",
                 "TranslateAwait", "Done"}
    /\ \A k \in {"research", "draft", "translate"} : calls[k] <= 1
    /\ calls["draft"] = 1 =>
         /\ calls["research"] = 1 /\ ResearchDone /\ researchResult.success
    /\ calls["translate"] = 1 =>
         /\ calls["draft"] = 1 /\ DraftDone /\ draftResult.success
    /\ wfPc \in {"Researching", "ResearchAwait"} =>
         /\ calls["research"] = 1 /\ calls["draft"] = 0 /\ calls["translate"] = 0
         /\ ~ResearchDone
    /\ wfPc = "Drafting" =>
         /\ calls["draft"] = 1 /\ calls["translate"] = 0
         /\ ~DraftDone
    /\ wfPc \in {"Translating", "TranslateAwait"} =>
         /\ calls["translate"] = 1
         /\ ~TranslateDone
    /\ (Finished /\ wfResult.kind = "return" /\ ~wfResult.value.success) =>
         /\ wfResult.value.step \in {"research", "draft"}
         /\ calls["translate"] = 0
         /\ ~TranslateDone
    /\ Finished => wfResult.kind = "return"

C27_Witness ==
    /\ run = 2
    /\ Finished /\ TranslationFailed
    /\ calls["research"] = 1 /\ calls["draft"] = 1 /\ calls["translate"] = 1
    /\ wfResult.value.step = "workflow"

\* ---- oauthUtils.ts: closeServer ----

\* C28: a listener that has handled a request other than a favicon probe is
\* closed in the end and, once closed, stays closed; it is closed only after
\* such a request.
C28_ClosesAfterRequest ==
    /\ [](lsRequests # <<>> => <>(lsPc = "closed"))
    /\ [](lsPc = "closed" => [](lsPc = "closed"))
    /\ [](lsPc = "closed" => lsRequests # <<>>)

C28_Witness ==
    /\ lsPc = "closed"
    /\ Len(lsRequests) = 1
    /\ lsTimers = 0
    /\ lsPromise = Throw(Err("No authorization code provided"))


\* ---- mcpClient.ts: attemptConnection, connectWithoutLoop ----

\* The handshake of c has ended.
HsEnded(c) == connPc[c] \in {"connected", "failed"}
HsFailedWith(c, errors) == connPc[c] = "failed" /\ hsResult[c] \in {Throw(e) : e \in errors}
\* The errors a callback listener rejects its caller with after a request.
CallbackErrors ==
    {Err("OAuth authorization failed: " \o y) : y \in RedirectErrors \ {NoParam}}
        \cup {Err("No authorization code provided")}

\* C21: a handshake makes at most two calls of client.connect and starts at
\* most one callback listener.
C21_AtMostTwoAttempts ==
    \A c \in Clients : hsAttempts[c] <= 2 /\ hsListeners[c] <= 1

\* C22: the step in which client.connect fails with an error that is no
\* UnauthorizedError ends the handshake with that error and starts no listener,
\* no code exchange and no attempt; and an ended handshake makes no further
\* attempt, listener or exchange.
C22_OtherErrorPropagates ==
    [][\A c \in Clients :
         /\ (connPc[c] = "attempting" /\ connPc'[c] = "failed") =>
              /\ hsResult'[c] \in {Throw(e) : e \in ConnectErrors}
              /\ initResult' = hsResult'[c]
              /\ hsListeners'[c] = hsListeners[c]
              /\ hsExchanges'[c] = hsExchanges[c]
              /\ hsAttempts'[c] = hsAttempts[c]
              /\ UNCHANGED listenerVars
         /\ connPc[c] = "failed" =>
              /\ connPc'[c] = "failed"
              /\ hsResult'[c] = hsResult[c]
              /\ hsListeners'[c] = hsListeners[c]
              /\ hsExchanges'[c] = hsExchanges[c]
              /\ hsAttempts'[c] = hsAttempts[c]]_vars

C22_Witness ==
    /\ HsFailedWith("exa", ConnectErrors)
    /\ hsAttempts["exa"] = 1
    /\ hsListeners["exa"] = 0 /\ hsExchanges["exa"] = 0
    /\ lsPc = "idle"

\* C23: a handshake that is connected after one callback listener has made
\* exactly two calls of client.connect, one call of openBrowser and one code
\* exchange, and resolved; a code is exchanged only once the listener has
\* resolved with it, and attempt n+1 is made only after exchange n.
C23_HandshakeScenario ==
    \A c \in Clients :
        /\ (connPc[c] = "connected" /\ hsListeners[c] = 1) =>
             /\ hsAttempts[c] = 2
             /\ hsBrowser[c] = 1
             /\ hsExchanges[c] = 1
             /\ hsResult[c] = Return(Undefined)
        /\ hsExchanges[c] <= hsListeners[c]
        /\ hsAttempts[c] <= hsExchanges[c] + 1
        /\ connPc[c] = "exchanging" =>
             /\ lsPromise # None /\ lsPromise.kind = "return"
             /\ hsExchanges[c] = hsListeners[c]
             /\ hsAttempts[c] = hsExchanges[c]
        /\ connPc[c] = "awaitingCode" => hsExchanges[c] = hsListeners[c] - 1

C23_Witness ==
    /\ connPc["exa"] = "connected"
    /\ hsListeners["exa"] = 1 /\ hsAttempts["exa"] = 2 /\ hsBrowser["exa"] = 1
    /\ hsExchanges["exa"] = 1
    /\ lsPromise = Return("abc123")
    /\ connPc["deepL"] = "findingPort"

\* C24: when the promise of the listener a handshake waits for is rejected,
\* the next step of the handshake ends it with that rejection, without a code
\* exchange and without another attempt; and a handshake that failed with a
\* rejection of its listener made as many exchanges as it had listeners before.
C24_CallbackFailureEnds ==
    [][\A c \in Clients :
         (/\ connPc[c] = "awaitingCode"
          /\ lsPromise # None /\ lsPromise.kind = "throw"
          /\ connPc'[c] # "awaitingCode") =>
              /\ connPc'[c] = "failed"
              /\ hsResult'[c] = lsPromise
              /\ initResult' = lsPromise
              /\ hsExchanges'[c] = hsExchanges[c]
              /\ hsAttempts'[c] = hsAttempts[c]
              /\ hsListeners'[c] = hsListeners[c]]_vars

C24_Witness ==
    /\ HsFailedWith("exa", CallbackErrors)
    /\ hsResult["exa"] = Throw(Err("OAuth authorization failed: access_denied"))
    /\ hsAttempts["exa"] = 1 /\ hsExchanges["exa"] = 0

\* C26: the callback ports the two clients select differ.
C26_DistinctPorts ==
    (hsPort["exa"] # 0 /\ hsPort["deepL"] # 0) => hsPort["exa"] # hsPort["deepL"]

\* ---- agent.ts: initialize ----

\* C29: the handshake of the translation client is started only once the
\* handshake of the search client has resolved; when the search client's
\* handshake fails, initialize fails with its error and the translation client
\* stays untouched.
C29_SequentialInitialize ==
    /\ connPc["deepL"] # "idle" =>
         /\ connPc["exa"] = "connected"
         /\ hsResult["exa"] = Return(Undefined)
    /\ connPc["exa"] # "connected" =>
         /\ hsPort["deepL"] = 0 /\ hsAttempts["deepL"] = 0 /\ hsListeners["deepL"] = 0
         /\ client["deepL"] = "null"
    /\ connPc["exa"] = "failed" =>
         /\ initPc = "failed"
         /\ hsResult["exa"] # None /\ hsResult["exa"].kind = "throw"
         /\ initResult = hsResult["exa"]
         /\ connPc["deepL"] = "idle"
    /\ initPc = "done" => \A c \in Clients : connPc[c] = "connected"

C29_Witness ==
    /\ connPc["exa"] = "connected"
    /\ connPc["deepL"] = "awaitingCode"
    /\ hsListeners["exa"] = 1
    /\ hsPort["deepL"] = 8091

\* C30: a callback listener that listens for a handshake is bound to the port
\* of that client's redirect URI.
C30_ListenerOnRedirectPort ==
    \A c \in Clients :
        (connPc[c] = "awaitingCode" /\ lsPc = "listening") => lsBound = hsPort[c]


\* ---- mcpClient.ts: attemptConnection and the listener's delayed close ----

\* C31: when a handshake that already had a callback listener starts a new
\* one, the listener before is not listening any more.
C31_PreviousListenerClosed ==
    [][\A c \in Clients :
         (hsListeners[c] >= 1 /\ hsListeners'[c] = hsListeners[c] + 1) =>
            lsPc # "listening"]_vars

\* C32: whenever the redirect handler opens the browser, the callback listener
\* of that handshake listens on the callback port.
C32_ListenerBeforeBrowser ==
    [][\A c \in Clients :
         hsBrowser'[c] = hsBrowser[c] + 1 =>
            /\ lsPc = "listening"
            /\ lsBound = hsPort[c]]_vars

\* ---- utils.ts: callWithRetry ----

\* C33: with maxRetries <= 0 callWithRetry ends at once with 'Exceeded max
\* retries' and callFn is never invoked; with maxRetries >= 1 a failure of
\* callWithRetry is the error callFn threw last, never 'Exceeded max retries'.
C33_ExceededOnlyWithoutAttempts ==
    /\ (rtPc # "idle" /\ rtMax <= 0) =>
         /\ RetryDone
         /\ rtInvocations = 0
         /\ rtThrown = <<>>
         /\ rtResult = Throw(Err("Exceeded max retries"))
    /\ (RetryDone /\ rtMax >= 1 /\ rtResult.kind = "throw") =>
         /\ rtResult # Throw(Err("Exceeded max retries"))
         /\ rtThrown # <<>>
         /\ rtResult.exc \in RetryErrors
         /\ rtResult.exc = rtThrown[Len(rtThrown)]

C33_Witness ==
    /\ RetryDone
    /\ rtMax = -1
    /\ rtInvocations = 0
    /\ rtResult = Throw(Err("Exceeded max retries"))

====
